---- MODULE Spec2Model ----
(***************************************************************************)
(* A model of the Mini CFO Copilot: the intent classifier                  *)
(* (agent/planner.py), the metric engine over the loaded DataBundle        *)
(* (agent/tools.py) and the question dispatch of the Streamlit script      *)
(* (app.py).                                                               *)
(*                                                                         *)
(* Text is a sequence of one-character strings, so that lower(), strip(),  *)
(* substring tests, the regular expressions, period formatting and         *)
(* period parsing are computed character by character.  Optional values    *)
(* (Python's None) are <<>> for None and <<v>> for a value v.  Amounts and *)
(* FX rates are integers; quotients are kept as a numerator and a          *)
(* denominator.                                                            *)
(***************************************************************************)
EXTENDS Integers, Sequences, FiniteSets, TLC

VARIABLES
    question,   \* planner: the question last classified
    plan,       \* planner: the Plan classify_intent returned for it
    bundle,     \* the DataBundle load_data returned (four frames)
    loaded,     \* the DataBundle exactly as load_data returned it
    call,       \* engine: the metric call last made, with its arguments
    result,     \* engine: what that call returned or raised
    run         \* app.py: the outcome of the last script run

vars == <<question, plan, bundle, loaded, call, result, run>>

(***************************************************************************)
(* Bounds of the model.                                                    *)
(***************************************************************************)
MaxWords == 3
MaxExtra == 2
MaxFx == 2
MaxOpexRows == 3
MaxAppWords == 2

(***************************************************************************)
(* Optional values and generic helpers.                                    *)
(***************************************************************************)
None == <<>>

Some(v) == <<v>>

IsNone(o) == Len(o) = 0

\* Python truthiness of an Optional[int]: None and 0 are falsy.
Truthy(o) == Len(o) = 1 /\ o[1] # 0

SeqsUpTo(S, n) == UNION {[1..k -> S] : k \in 0..n}

Min(a, b) == IF a <= b THEN a ELSE b

EmptyDict == [k \in {} |-> 0]

(***************************************************************************)
(* Characters.                                                             *)
(***************************************************************************)
Digits == <<"0","1","2","3","4","5","6","7","8","9">>

DigitSet == {Digits[i] : i \in 1..10}

NonZeroDigitSet == DigitSet \ {"0"}

Whitespace == {" ", "\t"}

UpperLetters == <<"A","B","C","D","E","F","G","H","I","J","K","L","M",
                  "N","O","P","Q","R","S","T","U","V","W","X","Y","Z">>

LowerLetters == <<"a","b","c","d","e","f","g","h","i","j","k","l","m",
                  "n","o","p","q","r","s","t","u","v","w","x","y","z">>

DigitVal(c) == (CHOOSE i \in 1..10 : Digits[i] = c) - 1

DigitChar(d) == Digits[d + 1]

\* The characters of the model in code point order.
CodeTable == <<"\t", " ", "-", "/", "0","1","2","3","4","5","6","7","8","9", ":", "?">>
             \o UpperLetters \o LowerLetters

\* The rank of a character in code point order.
CharCode(c) == CHOOSE i \in 1..Len(CodeTable) : CodeTable[i] = c

\* str.lower() on one character.
LowerChar(c) ==
    IF \E i \in 1..26 : UpperLetters[i] = c
    THEN LowerLetters[CHOOSE i \in 1..26 : UpperLetters[i] = c]
    ELSE c

\* str.lower()
Lower(s) == [i \in 1..Len(s) |-> LowerChar(s[i])]

\* str.strip(): leading and trailing whitespace removed.
Strip(s) ==
    LET keep == {i \in 1..Len(s) : s[i] \notin Whitespace}
    IN  IF keep = {} THEN <<>>
        ELSE LET lo == CHOOSE i \in keep : \A j \in keep : i <= j
                 hi == CHOOSE i \in keep : \A j \in keep : j <= i
             IN  SubSeq(s, lo, hi)

\* int() of a run of decimal digits.
RECURSIVE ParseInt(_)
ParseInt(s) ==
    IF Len(s) = 0 THEN 0
    ELSE 10 * ParseInt(SubSeq(s, 1, Len(s) - 1)) + DigitVal(s[Len(s)])

\* The pattern p occurs in s at position i.
MatchAt(s, i, p) ==
    /\ i >= 1
    /\ i + Len(p) - 1 <= Len(s)
    /\ SubSeq(s, i, i + Len(p) - 1) = p

\* Python's `p in s` on strings.
Contains(s, p) == \E i \in 1..(Len(s) - Len(p) + 1) : MatchAt(s, i, p)

\* The length of the longest run of characters of class C in s from i.
SpanLen(s, i, C) ==
    CHOOSE n \in 0..(Len(s) - i + 1) :
        /\ \A k \in 0..(n - 1) : s[i + k] \in C
        /\ (i + n > Len(s) \/ s[i + n] \notin C)

\* The least element of a non-empty set of integers.
Least(S) == CHOOSE i \in S : \A j \in S : i <= j

(***************************************************************************)
(* agent/planner.py                                                        *)
(***************************************************************************)
kw_cash_runway == <<"c","a","s","h"," ","r","u","n","w","a","y">>
kw_runway == <<"r","u","n","w","a","y">>
kw_cash == <<"c","a","s","h">>
kw_gross_margin == <<"g","r","o","s","s"," ","m","a","r","g","i","n">>
kw_trend == <<"t","r","e","n","d">>
kw_last == <<"l","a","s","t">>
kw_opex == <<"o","p","e","x">>
kw_breakdown == <<"b","r","e","a","k","d","o","w","n">>
kw_break_down == <<"b","r","e","a","k"," ","d","o","w","n">>
kw_opex_by == <<"o","p","e","x"," ","b","y">>
kw_revenue == <<"r","e","v","e","n","u","e">>
kw_budget == <<"b","u","d","g","e","t">>
kw_vs_budget == <<"v","s"," ","b","u","d","g","e","t">>
kw_month == <<"m","o","n","t","h">>

\* The MONTHS dictionary: key -> month number.
MONTHS ==
    { << <<"j","a","n">>, 1 >>, << <<"j","a","n","u","a","r","y">>, 1 >>,
      << <<"f","e","b">>, 2 >>, << <<"f","e","b","r","u","a","r","y">>, 2 >>,
      << <<"m","a","r">>, 3 >>, << <<"m","a","r","c","h">>, 3 >>,
      << <<"a","p","r">>, 4 >>, << <<"a","p","r","i","l">>, 4 >>,
      << <<"m","a","y">>, 5 >>,
      << <<"j","u","n">>, 6 >>, << <<"j","u","n","e">>, 6 >>,
      << <<"j","u","l">>, 7 >>, << <<"j","u","l","y">>, 7 >>,
      << <<"a","u","g">>, 8 >>, << <<"a","u","g","u","s","t">>, 8 >>,
      << <<"s","e","p">>, 9 >>, << <<"s","e","p","t">>, 9 >>,
      << <<"s","e","p","t","e","m","b","e","r">>, 9 >>,
      << <<"o","c","t">>, 10 >>, << <<"o","c","t","o","b","e","r">>, 10 >>,
      << <<"n","o","v">>, 11 >>, << <<"n","o","v","e","m","b","e","r">>, 11 >>,
      << <<"d","e","c">>, 12 >>, << <<"d","e","c","e","m","b","e","r">>, 12 >> }

\* The month-name alternation of the first regular expression, in the order
\* the matcher tries the variants: the alternatives left to right, and in
\* each the optional suffix first (the ? is greedy).
MonthVariants ==
    << <<"j","a","n","u","a","r","y">>, <<"j","a","n">>,
       <<"f","e","b","r","u","a","r","y">>, <<"f","e","b">>,
       <<"m","a","r","c","h">>, <<"m","a","r">>,
       <<"a","p","r","i","l">>, <<"a","p","r">>,
       <<"m","a","y">>,
       <<"j","u","n","e">>, <<"j","u","n">>,
       <<"j","u","l","y">>, <<"j","u","l">>,
       <<"a","u","g","u","s","t">>, <<"a","u","g">>,
       <<"s","e","p","t","e","m","b","e","r">>, <<"s","e","p","t">>,
       <<"s","e","p">>,
       <<"o","c","t","o","b","e","r">>, <<"o","c","t">>,
       <<"n","o","v","e","m","b","e","r">>, <<"n","o","v">>,
       <<"d","e","c","e","m","b","e","r">>, <<"d","e","c">> >>

\* (20\d{2}) at position i.
YearAt(q, i) ==
    /\ i + 3 <= Len(q)
    /\ q[i] = "2" /\ q[i + 1] = "0"
    /\ q[i + 2] \in DigitSet /\ q[i + 3] \in DigitSet

\* Variant number v of the month alternation, then \s+(20\d{2}), match at i.
MonthYearAt(q, i, v) ==
    LET name == MonthVariants[v]
        j == i + Len(name)
    IN  /\ MatchAt(q, i, name)
        /\ SpanLen(q, j, Whitespace) >= 1
        /\ YearAt(q, j + SpanLen(q, j, Whitespace))

\* (0?[1-9]|1[0-2]) at position j: the text of group 2, or <<>> when the
\* group does not match.  The alternatives are tried left to right and the
\* first that matches is taken.
MonthDigitsAt(q, j) ==
    IF j + 1 <= Len(q) /\ q[j] = "0" /\ q[j + 1] \in NonZeroDigitSet
        THEN SubSeq(q, j, j + 1)
    ELSE IF j <= Len(q) /\ q[j] \in NonZeroDigitSet
        THEN SubSeq(q, j, j)
    ELSE IF j + 1 <= Len(q) /\ q[j] = "1" /\ q[j + 1] \in {"0", "1", "2"}
        THEN SubSeq(q, j, j + 1)
    ELSE <<>>

\* (20\d{2})[-/ ](0?[1-9]|1[0-2]) matches at position i.
YearMonthAt(q, i) ==
    /\ YearAt(q, i)
    /\ i + 4 <= Len(q)
    /\ q[i + 4] \in {"-", "/", " "}
    /\ MonthDigitsAt(q, i + 5) # <<>>

\* _extract_month_year: [raised, month, year].
extract_month_year(q) ==
    LET hits1 == {i \in 1..Len(q) : \E v \in 1..Len(MonthVariants) : MonthYearAt(q, i, v)}
        hits2 == {i \in 1..Len(q) : YearMonthAt(q, i)}
    IN  IF hits1 # {} THEN
            LET i == Least(hits1)
                v == Least({w \in 1..Len(MonthVariants) : MonthYearAt(q, i, w)})
                g1 == MonthVariants[v]
                key == SubSeq(g1, 1, 3)
                y == i + Len(g1) + SpanLen(q, i + Len(g1), Whitespace)
            IN  IF \E e \in MONTHS : e[1] = key
                THEN [raised |-> "none",
                      month |-> Some((CHOOSE e \in MONTHS : e[1] = key)[2]),
                      year |-> Some(ParseInt(SubSeq(q, y, y + 3)))]
                ELSE [raised |-> "KeyError", month |-> None, year |-> None]
        ELSE IF hits2 # {} THEN
            LET i == Least(hits2)
            IN  [raised |-> "none",
                 month |-> Some(ParseInt(MonthDigitsAt(q, i + 5))),
                 year |-> Some(ParseInt(SubSeq(q, i, i + 3)))]
        ELSE [raised |-> "none", month |-> None, year |-> None]

\* re.search(r"last\s+(\d+)\s+month", q): the text of group 1 at position i,
\* or <<>> when the expression does not match there.
LastNAt(q, i) ==
    LET j == i + Len(kw_last)
        w1 == SpanLen(q, j, Whitespace)
        d == SpanLen(q, j + w1, DigitSet)
        w2 == SpanLen(q, j + w1 + d, Whitespace)
    IN  IF /\ MatchAt(q, i, kw_last)
           /\ j <= Len(q) /\ w1 >= 1
           /\ j + w1 <= Len(q) /\ d >= 1
           /\ j + w1 + d <= Len(q) /\ w2 >= 1
           /\ MatchAt(q, j + w1 + d + w2, kw_month)
        THEN SubSeq(q, j + w1, j + w1 + d - 1)
        ELSE <<>>

DefaultLastN == 3

\* The keyword predicates of the four rules, on the normalised question.
IsCashRunway(q) ==
    Contains(q, kw_cash_runway) \/ (Contains(q, kw_runway) /\ Contains(q, kw_cash))

IsGmTrend(q) ==
    Contains(q, kw_gross_margin) /\ (Contains(q, kw_trend) \/ Contains(q, kw_last))

IsOpexBreakdown(q) ==
    \/ (Contains(q, kw_opex) /\ (Contains(q, kw_breakdown) \/ Contains(q, kw_break_down)))
    \/ Contains(q, kw_opex_by)

IsRevenueVsBudget(q) ==
    (Contains(q, kw_revenue) /\ Contains(q, kw_budget)) \/ Contains(q, kw_vs_budget)

MkPlan(intent, params) == [raised |-> "none", intent |-> intent, params |-> params]

Raised(kind) == [raised |-> kind, intent |-> "", params |-> EmptyDict]

PeriodPlan(intent, q) ==
    LET my == extract_month_year(q)
    IN  IF my.raised # "none" THEN Raised(my.raised)
        ELSE MkPlan(intent, [month |-> my.month, year |-> my.year])

\* classify_intent with the rules in another order (revenue_vs_budget first).
classify_intent_reordered(qn) ==
    LET q == Strip(Lower(qn))
    IN  IF IsRevenueVsBudget(q) THEN PeriodPlan("revenue_vs_budget", q)
        ELSE IF IsCashRunway(q) THEN MkPlan("cash_runway", EmptyDict)
        ELSE IF IsGmTrend(q) THEN MkPlan("gm_trend", [last_n_months |-> DefaultLastN])
        ELSE IF IsOpexBreakdown(q) THEN PeriodPlan("opex_breakdown", q)
        ELSE MkPlan("help", EmptyDict)

classify_intent(qn) ==
    LET q == Strip(Lower(qn))
    IN  IF IsCashRunway(q) THEN MkPlan("cash_runway", EmptyDict)
        ELSE IF IsGmTrend(q) THEN
            LET hits == {i \in 1..Len(q) : LastNAt(q, i) # <<>>}
            IN  MkPlan("gm_trend",
                       [last_n_months |->
                            IF hits # {} THEN ParseInt(LastNAt(q, Least(hits)))
                            ELSE DefaultLastN])
        ELSE IF IsOpexBreakdown(q) THEN PeriodPlan("opex_breakdown", q)
        ELSE IF IsRevenueVsBudget(q) THEN PeriodPlan("revenue_vs_budget", q)
        ELSE MkPlan("help", EmptyDict)

(***************************************************************************)
(* agent/tools.py: frames.                                                 *)
(*                                                                         *)
(* A DataFrame is [ref, cols, rows]: rows is the sequence of its rows      *)
(* (functions from column names to values), cols the set of its columns,   *)
(* and ref the object it is: one of the bundle's four frames, or "tmp" for *)
(* a frame an operation created.  An operation that returns a new frame    *)
(* gives it ref "tmp"; an in-place column assignment keeps the ref of the  *)
(* frame it writes.                                                        *)
(***************************************************************************)
acc_Revenue == <<"R","e","v","e","n","u","e">>
acc_COGS == <<"C","O","G","S">>
pfx_Opex == <<"O","p","e","x",":">>
acc_Opex_rent == pfx_Opex \o <<"r","e","n","t">>
acc_Opex_ads == pfx_Opex \o <<"a","d","s">>
acc_Opex_it == pfx_Opex \o <<"i","t">>

\* str.startswith
StartsWith(s, p) == MatchAt(s, 1, p)

\* str.replace(p, '') : every occurrence of p removed, left to right.
RECURSIVE RemoveAll(_, _)
RemoveAll(s, p) ==
    IF Len(s) = 0 THEN <<>>
    ELSE IF MatchAt(s, 1, p) THEN RemoveAll(SubSeq(s, Len(p) + 1, Len(s)), p)
    ELSE <<s[1]>> \o RemoveAll(Tail(s), p)

\* a < b in Python's string order.
StrLess(a, b) ==
    \E i \in 1..(Min(Len(a), Len(b)) + 1) :
        /\ \A k \in 1..(i - 1) : a[k] = b[k]
        /\ \/ (i > Len(a) /\ i <= Len(b))
           \/ (i <= Len(a) /\ i <= Len(b) /\ CharCode(a[i]) < CharCode(b[i]))

\* sorted(S) for a set of strings.
RECURSIVE SortStrings(_)
SortStrings(S) ==
    IF S = {} THEN <<>>
    ELSE LET m == CHOOSE x \in S : \A y \in S : x = y \/ StrLess(x, y)
         IN  <<m>> \o SortStrings(S \ {m})

\* The decimal digits of n >= 0.
RECURSIVE ToDigits(_)
ToDigits(n) ==
    IF n < 10 THEN <<DigitChar(n)>>
    ELSE ToDigits(n \div 10) \o <<DigitChar(n % 10)>>

\* f"{n:0wd}"
RECURSIVE ZeroPad(_, _)
ZeroPad(s, w) == IF Len(s) >= w THEN s ELSE ZeroPad(<<"0">> \o s, w)

\* f"{year:04d}-{month:02d}"
FormatPeriod(year, month) ==
    ZeroPad(ToDigits(year), 4) \o <<"-">> \o ZeroPad(ToDigits(month), 2)

\* str.split('-')
RECURSIVE SplitDash(_)
SplitDash(s) ==
    LET cuts == {i \in 1..Len(s) : s[i] = "-"}
    IN  IF cuts = {} THEN <<s>>
        ELSE <<SubSeq(s, 1, Least(cuts) - 1)>>
             \o SplitDash(SubSeq(s, Least(cuts) + 1, Len(s)))

\* _normalize_period on the ISO forms 'YYYY-MM' and 'YYYY-MM-DD': the parsed
\* date's year and month, formatted.
normalize_period(s) ==
    LET parts == SplitDash(s)
    IN  FormatPeriod(ParseInt(parts[1]), ParseInt(parts[2]))

\* Python's seq[start:] for any integer start.
PySliceFrom(seq, start) ==
    LET n == Len(seq)
        lo == IF start < 0 THEN (IF n + start < 0 THEN 0 ELSE n + start)
              ELSE Min(start, n)
    IN  SubSeq(seq, lo + 1, n)

RECURSIVE Keep(_, _)
Keep(rows, mask) ==
    IF Len(rows) = 0 THEN <<>>
    ELSE (IF Head(mask) THEN <<Head(rows)>> ELSE <<>>) \o Keep(Tail(rows), Tail(mask))

\* df['period'] == p: the boolean mask of the rows of period p.
PeriodIs(df, p) == [i \in 1..Len(df.rows) |-> df.rows[i].period = p]

\* df[mask]: a new frame of the rows whose mask entry is true.
Select(df, mask) ==
    [ref |-> "tmp", cols |-> df.cols, rows |-> Keep(df.rows, mask)]

\* df.copy()
Copy(df) == [df EXCEPT !.ref = "tmp"]

\* df[[c1, c2, ...]]: a new frame of the named columns.
Project(df, names) ==
    [ref |-> "tmp", cols |-> names,
     rows |-> [i \in 1..Len(df.rows) |-> [c \in names |-> df.rows[i][c]]]]

\* df.rename(columns={old: new}): a new frame.
Rename(df, old, new) ==
    [ref |-> "tmp", cols |-> (df.cols \ {old}) \cup {new},
     rows |-> [i \in 1..Len(df.rows) |->
                 [c \in (df.cols \ {old}) \cup {new} |->
                     IF c = new THEN df.rows[i][old] ELSE df.rows[i][c]]]]

\* df[col] = values, in place: the frame written keeps its identity.
SetColumn(df, col, values) ==
    [ref |-> df.ref, cols |-> df.cols \cup {col},
     rows |-> [i \in 1..Len(df.rows) |-> (col :> values[i]) @@ df.rows[i]]]

\* The rows of a left join of one row with the rate table, in the rate
\* table's order; an unmatched row gets a missing rate.
JoinRow(r, rates) ==
    LET IsMatch(e) == e.period = r.period /\ e.currency = r.currency
        hits == SelectSeq(rates, IsMatch)
    IN  IF Len(hits) = 0 THEN << ("rate_to_usd" :> None) @@ r >>
        ELSE [i \in 1..Len(hits) |-> ("rate_to_usd" :> Some(hits[i].rate_to_usd)) @@ r]

RECURSIVE JoinRows(_, _)
JoinRows(rows, rates) ==
    IF Len(rows) = 0 THEN <<>>
    ELSE JoinRow(rows[1], rates) \o JoinRows(Tail(rows), rates)

\* A merge that attaches the rate column to df itself instead of building a
\* new frame.
MergeInPlace(df, rates) ==
    [ref |-> df.ref, cols |-> df.cols \cup {"rate_to_usd"},
     rows |-> JoinRows(df.rows, rates.rows)]

\* df.merge(rates, on=['period','currency'], how='left'): a new frame.
Merge(df, rates) ==
    [ref |-> "tmp", cols |-> df.cols \cup {"rate_to_usd"},
     rows |-> JoinRows(df.rows, rates.rows)]

\* to_usd: the merged frame with rate_to_usd filled and amount_usd added.
to_usd(df, fx, amount_col) ==
    LET rates == Copy(Project(fx, {"period", "currency", "rate_to_usd"}))
        merged == Merge(df, rates)
        FillNa(r) == IF IsNone(r.rate_to_usd) THEN Some(1) ELSE r.rate_to_usd
        filled == SetColumn(merged, "rate_to_usd",
                            [i \in 1..Len(merged.rows) |-> FillNa(merged.rows[i])])
        Usd(r) == r[amount_col] * r.rate_to_usd[1]
    IN  SetColumn(filled, "amount_usd",
                  [i \in 1..Len(filled.rows) |-> Usd(filled.rows[i])])

\* Series.sum()
RECURSIVE SumCol(_, _)
SumCol(rows, col) ==
    IF Len(rows) = 0 THEN 0 ELSE rows[1][col] + SumCol(Tail(rows), col)

\* set(df['period'])
PeriodSet(df) == {df.rows[i].period : i \in 1..Len(df.rows)}

\* The bundle's frames as the calls leave them: a written frame that is one
\* of the bundle's own replaces it.
Commit(b, written) ==
    [k \in DOMAIN b |->
        IF \E f \in written : f.ref = k
        THEN CHOOSE f \in written : f.ref = k
        ELSE b[k]]

Ok(v, w) == [kind |-> "ok", val |-> v, written |-> w]

Err(kind, w) == [kind |-> kind, val |-> <<>>, written |-> w]

(***************************************************************************)
(* agent/tools.py: load_data.                                              *)
(***************************************************************************)
LedgerCols == {"period", "entity", "account", "amount"}

\* df[col] = df[col].apply(_normalize_period) on a frame just read.
NormalizePeriods(df) ==
    SetColumn(df, "period",
              [i \in 1..Len(df.rows) |-> normalize_period(df.rows[i].period)])

\* if 'currency' not in df.columns: df['currency'] = 'USD'
DefaultCurrency(df) ==
    IF "currency" \in df.cols THEN df
    ELSE SetColumn(df, "currency", [i \in 1..Len(df.rows) |-> "USD"])

\* load_data on the four tables read: the bundle, or the error raised.
load_data(src) ==
    IF ~(LedgerCols \subseteq src.actuals.cols) THEN Err("AssertionError", {})
    ELSE IF ~(LedgerCols \subseteq src.budget.cols) THEN Err("AssertionError", {})
    ELSE IF "rate_to_usd" \notin src.fx.cols THEN Err("ValueError", {})
    ELSE IF "currency" \notin src.fx.cols THEN Err("ValueError", {})
    ELSE Ok([actuals |-> [NormalizePeriods(DefaultCurrency(src.actuals)) EXCEPT !.ref = "actuals"],
             budget |-> [NormalizePeriods(DefaultCurrency(src.budget)) EXCEPT !.ref = "budget"],
             fx |-> [NormalizePeriods(src.fx) EXCEPT !.ref = "fx"],
             cash |-> [DefaultCurrency(NormalizePeriods(src.cash)) EXCEPT !.ref = "cash"]],
            {})

(***************************************************************************)
(* agent/tools.py: the metric functions.  Each returns [kind, val,         *)
(* written]: kind is "ok" or the exception raised, val the value returned, *)
(* written the frames the call assigned columns to.                        *)
(***************************************************************************)
\* _period_filter: the frame itself when month or year is falsy.
period_filter(df, month, year) ==
    IF Truthy(month) /\ Truthy(year)
    THEN Select(df, PeriodIs(df, FormatPeriod(year[1], month[1])))
    ELSE df

\* sorted(set(df['period']))[0]
LatestPeriodFirst(df) ==
    LET ps == SortStrings(PeriodSet(df))
    IN  IF Len(ps) = 0 THEN Err("IndexError", {}) ELSE Ok(ps[1], {})

\* sorted(set(df['period']))[-1]
LatestPeriod(df) ==
    LET ps == SortStrings(PeriodSet(df))
    IN  IF Len(ps) = 0 THEN Err("IndexError", {}) ELSE Ok(ps[Len(ps)], {})

IsRevenue(r) == r.account = acc_Revenue

IsCogs(r) == r.account = acc_COGS

IsOpex(r) == StartsWith(r.account, pfx_Opex)

\* The account masks the metric functions build: df['account'] == 'Revenue',
\* df['account'] == 'COGS', df['account'].str.startswith('Opex:').
AccountMask(df, kind) ==
    [i \in 1..Len(df.rows) |->
        CASE kind = "Revenue" -> IsRevenue(df.rows[i])
          [] kind = "COGS" -> IsCogs(df.rows[i])
          [] kind = "Opex" -> IsOpex(df.rows[i])]

\* to_usd(df[<account mask>], bundle.fx)
UsdOf(df, kind, b) == to_usd(Select(df, AccountMask(df, kind)), b.fx, "amount")

revenue_vs_budget_usd(b, month, year) ==
    LET act0 == period_filter(b.actuals, month, year)
        bud0 == period_filter(b.budget, month, year)
        useLatest == IsNone(month) \/ IsNone(year)
        latest == LatestPeriod(act0)
    IN  IF useLatest /\ latest.kind # "ok" THEN latest
        ELSE
        LET act == IF useLatest THEN Select(act0, PeriodIs(act0, latest.val)) ELSE act0
            bud == IF useLatest THEN Select(bud0, PeriodIs(bud0, latest.val)) ELSE bud0
            parts == IF useLatest THEN SplitDash(latest.val) ELSE <<>>
        IN  IF useLatest /\ Len(parts) # 2 THEN Err("ValueError", {})
            ELSE
            LET y == IF useLatest THEN ParseInt(parts[1]) ELSE year[1]
                m == IF useLatest THEN ParseInt(parts[2]) ELSE month[1]
                actUsd == UsdOf(act, "Revenue", b)
                budUsd == UsdOf(bud, "Revenue", b)
            IN  Ok([actual |-> SumCol(actUsd.rows, "amount_usd"),
                    budget |-> SumCol(budUsd.rows, "amount_usd"),
                    label |-> FormatPeriod(y, m)],
                   {actUsd, budUsd})

\* The revenue and COGS frames of period p, converted.
PeriodUsd(b, p, kind) ==
    UsdOf(Select(b.actuals, PeriodIs(b.actuals, p)), kind, b)

NaN == [nan |-> TRUE, num |-> 0, den |-> 1]

Quot(n, d) == [nan |-> FALSE, num |-> n, den |-> d]

\* periods[-last_n_months:]
Window(periods, n) == PySliceFrom(periods, 0 - n)

gross_margin_pct(b, last_n_months) ==
    LET periods == Window(SortStrings(PeriodSet(b.actuals)), last_n_months)
        Row(p) ==
            LET rev == SumCol(PeriodUsd(b, p, "Revenue").rows, "amount_usd")
                cogs == SumCol(PeriodUsd(b, p, "COGS").rows, "amount_usd")
            IN  [period |-> p,
                 gm_pct |-> IF rev # 0 THEN Quot((rev - cogs) * 100, rev) ELSE NaN]
    IN  Ok([i \in 1..Len(periods) |-> Row(periods[i])],
           UNION {{PeriodUsd(b, periods[i], "Revenue"), PeriodUsd(b, periods[i], "COGS")}
                    : i \in 1..Len(periods)})

\* groupby('category', as_index=False)['amount_usd'].sum(): one row per
\* category, the categories in ascending order.
GroupSum(rows) ==
    LET cats == SortStrings({rows[i].category : i \in 1..Len(rows)})
        Of(c) == LET InCat(r) == r.category = c IN SelectSeq(rows, InCat)
    IN  [i \in 1..Len(cats) |->
            [category |-> cats[i], amount_usd |-> SumCol(Of(cats[i]), "amount_usd")]]

Arrangements(n) == {f \in [1..n -> 1..n] : \A i, j \in 1..n : f[i] = f[j] => i = j}

\* A sort on amount_usd that puts the smallest first.
SortValuesAsc(rows) ==
    {[i \in 1..Len(rows) |-> rows[f[i]]] : f \in
        {g \in Arrangements(Len(rows)) :
            \A i \in 1..(Len(rows) - 1) :
                rows[g[i]].amount_usd <= rows[g[i + 1]].amount_usd}}

\* sort_values('amount_usd', ascending=False) with the default, unstable
\* kind: every arrangement of the rows with amount_usd non-increasing.
SortValuesDesc(rows) ==
    {[i \in 1..Len(rows) |-> rows[f[i]]] : f \in
        {g \in Arrangements(Len(rows)) :
            \A i \in 1..(Len(rows) - 1) :
                rows[g[i]].amount_usd >= rows[g[i + 1]].amount_usd}}

\* opex_breakdown: the set of outcomes, one per arrangement the sort may
\* leave.
opex_breakdown(b, month, year) ==
    LET df0 == period_filter(b.actuals, month, year)
        useLatest == IsNone(month) \/ IsNone(year)
        latest == LatestPeriod(b.actuals)
    IN  IF useLatest /\ latest.kind # "ok" THEN {latest}
        ELSE
        LET df == IF useLatest THEN Select(b.actuals, PeriodIs(b.actuals, latest.val))
                  ELSE df0
            opex == Copy(Select(df, AccountMask(df, "Opex")))
            withCat == SetColumn(opex, "category",
                           [i \in 1..Len(opex.rows) |->
                               RemoveAll(opex.rows[i].account, pfx_Opex)])
            opex_usd == to_usd(withCat, b.fx, "amount")
        IN  {Ok(out, {withCat, opex_usd}) : out \in SortValuesDesc(GroupSum(opex_usd.rows))}

ebitda_proxy(b, month, year) ==
    LET df0 == period_filter(b.actuals, month, year)
        useLatest == IsNone(month) \/ IsNone(year)
        latest == LatestPeriod(b.actuals)
    IN  IF useLatest /\ latest.kind # "ok" THEN latest
        ELSE
        LET df == IF useLatest THEN Select(b.actuals, PeriodIs(b.actuals, latest.val))
                  ELSE df0
            rev == UsdOf(df, "Revenue", b)
            cogs == UsdOf(df, "COGS", b)
            opex == UsdOf(df, "Opex", b)
        IN  Ok(SumCol(rev.rows, "amount_usd") - SumCol(cogs.rows, "amount_usd")
                   - SumCol(opex.rows, "amount_usd"),
               {rev, cogs, opex})

RunwayWindow == 3

\* burn = (cogs + opex) - rev of period p.
Burn(b, p) ==
    (SumCol(PeriodUsd(b, p, "COGS").rows, "amount_usd")
        + SumCol(PeriodUsd(b, p, "Opex").rows, "amount_usd"))
    - SumCol(PeriodUsd(b, p, "Revenue").rows, "amount_usd")

RECURSIVE SumBurns(_, _)
SumBurns(b, periods) ==
    IF Len(periods) = 0 THEN 0
    ELSE Burn(b, periods[1]) + SumBurns(b, Tail(periods))

Inf == [inf |-> TRUE, num |-> 0, den |-> 1]

\* cash_runway_months.  avg_burn is sum / count, so avg_burn <= 0 exactly
\* when the sum is <= 0, and cash / avg_burn = cash * count / sum.
cash_runway_months(b) ==
    LET periods == PySliceFrom(SortStrings(PeriodSet(b.actuals)), 0 - RunwayWindow)
        total == SumBurns(b, periods)
        count == Len(periods)
        latest == LatestPeriod(b.cash)
        written == UNION {{PeriodUsd(b, periods[i], "Revenue"),
                           PeriodUsd(b, periods[i], "COGS"),
                           PeriodUsd(b, periods[i], "Opex")} : i \in 1..count}
    IN  IF latest.kind # "ok" THEN Err(latest.kind, written)
        ELSE
        LET cashUsd == to_usd(Rename(Select(b.cash, PeriodIs(b.cash, latest.val)),
                                     "cash_balance", "amount"),
                              b.fx, "amount")
            cash_latest == SumCol(cashUsd.rows, "amount_usd")
        IN  Ok([months |-> IF count = 0 \/ total <= 0 THEN Inf
                           ELSE [inf |-> FALSE, num |-> cash_latest * count, den |-> total],
                cash |-> cash_latest],
               written \cup {cashUsd})

(***************************************************************************)
(* The tables loaded: a fixture of three periods with burns 100, 200 and   *)
(* 300 and a latest cash balance of 900, and bounded variations of it.     *)
(***************************************************************************)
p_2025_03 == <<"2","0","2","5","-","0","3">>
p_2025_04 == <<"2","0","2","5","-","0","4">>
p_2025_05 == <<"2","0","2","5","-","0","5">>
p_2025_06 == <<"2","0","2","5","-","0","6">>
p_2025_06_15 == <<"2","0","2","5","-","0","6","-","1","5">>
p_2025_07 == <<"2","0","2","5","-","0","7">>

LRow(p, a, amt, cur) ==
    [period |-> p, entity |-> "HQ", account |-> a, amount |-> amt, currency |-> cur]

FxRow(p, cur, rate) == [period |-> p, currency |-> cur, rate_to_usd |-> rate]

Table(cols, rows) == [ref |-> "tmp", cols |-> cols, rows |-> rows]

Ledger(rows) == Table(LedgerCols \cup {"currency"}, rows)

FxTable(rows) == Table({"period", "currency", "rate_to_usd"}, rows)

BaseActuals ==
    << LRow(p_2025_04, acc_Revenue, 400, "USD"),
       LRow(p_2025_04, acc_COGS, 200, "USD"),
       LRow(p_2025_04, acc_Opex_rent, 300, "USD"),
       LRow(p_2025_05, acc_Revenue, 300, "USD"),
       LRow(p_2025_05, acc_COGS, 200, "USD"),
       LRow(p_2025_05, acc_Opex_ads, 300, "USD"),
       LRow(p_2025_06_15, acc_Revenue, 300, "USD"),
       LRow(p_2025_06, acc_COGS, 300, "USD"),
       LRow(p_2025_06, acc_Opex_rent, 150, "USD"),
       LRow(p_2025_06, acc_Opex_ads, 150, "USD") >>

ExtraRows ==
    {LRow(p, k[1], 900, k[2]) :
        p \in {p_2025_03, p_2025_07},
        k \in {<<acc_Revenue, "USD">>, <<acc_COGS, "USD">>, <<acc_COGS, "EUR">>}}

BaseBudget ==
    << LRow(p_2025_05, acc_Revenue, 350, "USD"),
       LRow(p_2025_06, acc_Revenue, 250, "USD"),
       LRow(p_2025_06, acc_COGS, 100, "USD") >>

\* cash.csv without a currency column.
BaseCash ==
    Table({"period", "cash_balance"},
          << [period |-> p_2025_05, cash_balance |-> 500],
             [period |-> p_2025_06_15, cash_balance |-> 900] >>)

\* cash.csv with a currency column and a later period.
EurCash ==
    Table({"period", "cash_balance", "currency"},
          << [period |-> p_2025_07, cash_balance |-> 100, currency |-> "EUR"],
             [period |-> p_2025_06, cash_balance |-> 900, currency |-> "USD"] >>)

EmptyCash == Table({"period", "cash_balance"}, <<>>)

FxRows ==
    { FxRow(p_2025_06, "USD", 1), FxRow(p_2025_06_15, "USD", 2),
      FxRow(p_2025_07, "EUR", 2), FxRow(p_2025_07, "EUR", 3) }

OpexRows ==
    {LRow(p_2025_06, a, amt, "USD") :
        a \in {acc_Opex_rent, acc_Opex_ads, acc_Opex_it},
        amt \in {100, 200}}

Source(a, b, f, c) == [actuals |-> Ledger(a), budget |-> Ledger(b), fx |-> FxTable(f), cash |-> c]

\* Ledgers: the fixture, extended by up to MaxExtra rows, or those rows alone.
LedgerSources ==
    {Source(a, b, f, c) :
        a \in {e : e \in SeqsUpTo(ExtraRows, MaxExtra)}
              \cup {BaseActuals \o e : e \in SeqsUpTo(ExtraRows, MaxExtra)},
        b \in {<<>>, BaseBudget},
        f \in {<< FxRow(p_2025_07, "EUR", 2) >>},
        c \in {BaseCash, EurCash, EmptyCash}}

\* FX tables of up to MaxFx entries, repeated keys included.
FxSources ==
    {Source(a, BaseBudget, f, c) :
        a \in {BaseActuals, BaseActuals \o << LRow(p_2025_07, acc_COGS, 900, "EUR") >>},
        f \in SeqsUpTo(FxRows, MaxFx),
        c \in {BaseCash, EurCash}}

\* Opex ledgers of one period, up to MaxOpexRows rows in any order.
OpexSources ==
    {Source(a, BaseBudget, <<>>, BaseCash) : a \in SeqsUpTo(OpexRows, MaxOpexRows)}

Sources == LedgerSources \cup FxSources \cup OpexSources

(***************************************************************************)
(* The questions asked: up to MaxWords words of the vocabulary, joined by  *)
(* single spaces.                                                          *)
(***************************************************************************)
Vocabulary ==
    { <<"C","a","s","h">>,
      <<"r","u","n","w","a","y">>,
      <<"G","r","o","s","s"," ","m","a","r","g","i","n">>,
      <<"t","r","e","n","d">>,
      <<"l","a","s","t"," ","0"," ","m","o","n","t","h","s">>,
      <<"l","a","s","t"," ","1","2"," ","m","o","n","t","h">>,
      <<"O","p","e","x"," ","b","y">>,
      <<"B","r","e","a","k"," ","d","o","w","n">>,
      <<"R","e","v","e","n","u","e">>,
      <<"v","s"," ","b","u","d","g","e","t">>,
      <<"J","u","n","e"," ","2","0","2","5">>,
      <<"s","e","p","t"," ","2","0","2","4">>,
      <<"2","0","2","5","-","1","0">>,
      <<"2","0","2","5","/","0","6">>,
      <<" ">> }

RECURSIVE Join(_)
Join(ws) ==
    IF Len(ws) = 0 THEN <<>>
    ELSE IF Len(ws) = 1 THEN ws[1]
    ELSE ws[1] \o <<" ">> \o Join(Tail(ws))

Questions == {Join(ws) : ws \in SeqsUpTo(Vocabulary, MaxWords)}

AppQuestions == {Join(ws) : ws \in SeqsUpTo(Vocabulary, MaxAppWords)}

NoPlan == MkPlan("", EmptyDict)

NoCall == [fn |-> "", month |-> None, year |-> None, n |-> 0, src |-> ""]

NoResult == [kind |-> "none", val |-> <<>>]

NoRun == [status |-> "none", error |-> "none", shown |-> <<>>]

\* classify_intent(question): the question drawn at the start is classified.
Classify ==
    /\ plan = NoPlan
    /\ plan' = classify_intent(question)
    /\ UNCHANGED <<question, bundle, loaded, call, result, run>>

InitPlanner ==
    /\ question \in Questions
    /\ plan = NoPlan
    /\ bundle = <<>>
    /\ loaded = <<>>
    /\ call = NoCall
    /\ result = NoResult
    /\ run = NoRun

NextPlanner == Classify

SpecPlanner == InitPlanner /\ [][NextPlanner]_vars

(***************************************************************************)
(* The metric engine called on a loaded bundle.  A call is made, its       *)
(* result is taken by the caller, and the next call follows.               *)
(***************************************************************************)
MaxWindow == 4

MonthArgs == {None, Some(6)}

YearArgs == {None, Some(2025)}

MkCall(fn, month, year, n, src) ==
    [fn |-> fn, month |-> month, year |-> year, n |-> n, src |-> src]

\* The call returns or raises r.
Returns(r) ==
    /\ result' = [kind |-> r.kind, val |-> r.val]
    /\ bundle' = Commit(bundle, r.written)
    /\ UNCHANGED <<question, plan, loaded, run>>

CallRevenueVsBudget(month, year) ==
    /\ call = NoCall
    /\ call' = MkCall("revenue_vs_budget_usd", month, year, 0, "")
    /\ Returns(revenue_vs_budget_usd(bundle, month, year))

CallGrossMargin(n) ==
    /\ call = NoCall
    /\ call' = MkCall("gross_margin_pct", None, None, n, "")
    /\ Returns(gross_margin_pct(bundle, n))

CallOpexBreakdown(month, year) ==
    /\ call = NoCall
    /\ call' = MkCall("opex_breakdown", month, year, 0, "")
    /\ \E r \in opex_breakdown(bundle, month, year) : Returns(r)

CallEbitda(month, year) ==
    /\ call = NoCall
    /\ call' = MkCall("ebitda_proxy", month, year, 0, "")
    /\ Returns(ebitda_proxy(bundle, month, year))

CallCashRunway ==
    /\ call = NoCall
    /\ call' = MkCall("cash_runway_months", None, None, 0, "")
    /\ Returns(cash_runway_months(bundle))

\* to_usd called on one of the bundle's own ledgers.
CallToUsd(src) ==
    /\ call = NoCall
    /\ call' = MkCall("to_usd", None, None, 0, src)
    /\ LET out == to_usd(bundle[src], bundle.fx, "amount")
       IN  Returns(Ok(out, {out}))

\* The caller has taken the result.
Return ==
    /\ call # NoCall
    /\ call' = NoCall
    /\ result' = NoResult
    /\ UNCHANGED <<question, plan, bundle, loaded, run>>

Init ==
    /\ question = <<>>
    /\ plan = NoPlan
    /\ \E src \in Sources :
          /\ load_data(src).kind = "ok"
          /\ bundle = load_data(src).val
    /\ loaded = bundle
    /\ call = NoCall
    /\ result = NoResult
    /\ run = NoRun

Next ==
    \/ \E m \in MonthArgs, y \in YearArgs : CallRevenueVsBudget(m, y)
    \/ \E n \in 0..MaxWindow : CallGrossMargin(n)
    \/ \E m \in MonthArgs, y \in YearArgs : CallOpexBreakdown(m, y)
    \/ \E m \in MonthArgs, y \in YearArgs : CallEbitda(m, y)
    \/ CallCashRunway
    \/ \E src \in {"actuals", "budget"} : CallToUsd(src)
    \/ Return

Spec == Init /\ [][Next]_vars

(***************************************************************************)
(* app.py: one run of the script per interaction.  The question typed and  *)
(* the Ask button are the inputs; the run renders widgets in order and     *)
(* ends either at the last line of the script or at an exception that      *)
(* nothing in the script catches.                                          *)
(***************************************************************************)
Completed(shown) == [status |-> "completed", error |-> "none", shown |-> shown \o <<"tip">>]

Uncaught(kind, shown) == [status |-> "uncaught", error |-> kind, shown |-> shown]

\* plan.params.get(key): None when the key is absent.
Get(params, key) == IF key \in DOMAIN params THEN params[key] ELSE None

\* Lines 66-105: what one run of the script renders, for each arrangement
\* the opex sort may leave.
ScriptOutcomes(b, q, submit) ==
    IF ~submit \/ Strip(q) = <<>> THEN {Completed(<<"caption">>)}
    ELSE
    LET p == classify_intent(q)
    IN  IF p.raised # "none" THEN {Uncaught(p.raised, <<>>)}
        ELSE IF p.intent = "revenue_vs_budget" THEN
            LET r == revenue_vs_budget_usd(b, Get(p.params, "month"), Get(p.params, "year"))
            IN  IF r.kind # "ok" THEN {Uncaught(r.kind, <<"intent">>)}
                ELSE {IF o.kind # "ok"
                        THEN Uncaught(o.kind, <<"intent", "success", "chart">>)
                        ELSE Completed(<<"intent", "success", "chart", "download">>)
                      : o \in opex_breakdown(b, Get(p.params, "month"), Get(p.params, "year"))}
        ELSE IF p.intent = "gm_trend" THEN
            LET n == IF "last_n_months" \in DOMAIN p.params
                     THEN p.params.last_n_months ELSE DefaultLastN
                r == gross_margin_pct(b, n)
            IN  IF r.kind # "ok" THEN {Uncaught(r.kind, <<"intent">>)}
                ELSE {Completed(<<"intent", "info", "chart">>)}
        ELSE IF p.intent = "opex_breakdown" THEN
            {IF o.kind # "ok"
                THEN Uncaught(o.kind, <<"intent">>)
                ELSE Completed(<<"intent", "info", "dataframe", "chart">>)
             : o \in opex_breakdown(b, Get(p.params, "month"), Get(p.params, "year"))}
        ELSE IF p.intent = "cash_runway" THEN
            LET r == cash_runway_months(b)
            IN  IF r.kind # "ok" THEN {Uncaught(r.kind, <<"intent">>)}
                ELSE IF r.val.months.inf THEN {Completed(<<"intent", "success">>)}
                ELSE {Completed(<<"intent", "warning">>)}
        ELSE {Completed(<<"intent", "examples">>)}

\* The user types a question.
TypeQuestion(q) ==
    /\ question = <<>>
    /\ run = NoRun
    /\ q # <<>>
    /\ question' = q
    /\ UNCHANGED <<plan, bundle, loaded, call, result, run>>

\* The script runs on the question typed, with the button pressed or not.
ScriptRun(submit) ==
    /\ question # <<>>
    /\ run = NoRun
    /\ plan' = IF submit /\ Strip(question) # <<>> THEN classify_intent(question) ELSE NoPlan
    /\ \E o \in ScriptOutcomes(bundle, question, submit) : run' = o
    /\ UNCHANGED <<question, bundle, loaded, call, result>>

\* The next interaction: the script is run again from the top.
NextInteraction ==
    /\ run # NoRun
    /\ question' = <<>>
    /\ plan' = NoPlan
    /\ run' = NoRun
    /\ UNCHANGED <<bundle, loaded, call, result>>

AppSources ==
    {Source(a, BaseBudget, << FxRow(p_2025_07, "EUR", 2) >>, c) :
        a \in {<<>>, BaseActuals}, c \in {BaseCash, EmptyCash}}

InitApp ==
    /\ question = <<>>
    /\ plan = NoPlan
    /\ \E src \in AppSources :
          /\ load_data(src).kind = "ok"
          /\ bundle = load_data(src).val
    /\ loaded = bundle
    /\ call = NoCall
    /\ result = NoResult
    /\ run = NoRun

NextApp ==
    \/ \E q \in AppQuestions : TypeQuestion(q)
    \/ \E submit \in BOOLEAN : ScriptRun(submit)
    \/ NextInteraction

SpecApp == InitApp /\ [][NextApp]_vars

(***************************************************************************)
(* Properties.                                                             *)
(***************************************************************************)
Normalised == Strip(Lower(question))

RuleIntent == <<"cash_runway", "gm_trend", "opex_breakdown", "revenue_vs_budget">>

RuleHolds(k, q) ==
    CASE k = 1 -> IsCashRunway(q)
      [] k = 2 -> IsGmTrend(q)
      [] k = 3 -> IsOpexBreakdown(q)
      [] k = 4 -> IsRevenueVsBudget(q)

\* C1: classify_intent never raises, and the intent it returns is that of
\* the first rule, in the order cash_runway, gm_trend, opex_breakdown,
\* revenue_vs_budget, whose keyword predicate holds on the lower-cased,
\* trimmed question; when none holds it is help with empty params.
C1_FirstMatchWins ==
    plan # NoPlan =>
        LET holds == {k \in 1..4 : RuleHolds(k, Normalised)}
        IN  /\ plan.raised = "none"
            /\ plan.intent = IF holds = {} THEN "help" ELSE RuleIntent[Least(holds)]
            /\ (holds = {} => plan.params = EmptyDict)

\* A question that satisfies the first and the last rule was classified as
\* cash_runway.
C1_Witness ==
    /\ plan.raised = "none"
    /\ plan.intent = "cash_runway"
    /\ IsRevenueVsBudget(Normalised)
    /\ IsCashRunway(Normalised)

\* The month text the claim reads at position j: two digits when they spell
\* 01..12, else one digit 1..9, else nothing.
C2_MonthText(q, j) ==
    IF j + 1 <= Len(q) /\ q[j] \in DigitSet /\ q[j + 1] \in DigitSet
       /\ ParseInt(SubSeq(q, j, j + 1)) \in 1..12
        THEN SubSeq(q, j, j + 1)
    ELSE IF j <= Len(q) /\ q[j] \in NonZeroDigitSet THEN SubSeq(q, j, j)
    ELSE <<>>

\* A name of the lexicon, then whitespace, then a year, at position i.
C2_NameAt(q, i, e) ==
    /\ MatchAt(q, i, e[1])
    /\ SpanLen(q, i + Len(e[1]), Whitespace) >= 1
    /\ YearAt(q, i + Len(e[1]) + SpanLen(q, i + Len(e[1]), Whitespace))

C2_Expected(q) ==
    LET hitsA == {i \in 1..Len(q) : \E e \in MONTHS : C2_NameAt(q, i, e)}
        hitsB == {i \in 1..Len(q) :
                    /\ YearAt(q, i) /\ i + 4 <= Len(q)
                    /\ q[i + 4] \in {"-", "/", " "}
                    /\ C2_MonthText(q, i + 5) # <<>>}
    IN  IF hitsA # {} THEN
            LET i == Least(hitsA)
                e == CHOOSE e \in MONTHS : C2_NameAt(q, i, e)
                y == i + Len(e[1]) + SpanLen(q, i + Len(e[1]), Whitespace)
            IN  [month |-> Some(e[2]), year |-> Some(ParseInt(SubSeq(q, y, y + 3)))]
        ELSE IF hitsB # {} THEN
            LET i == Least(hitsB)
            IN  [month |-> Some(ParseInt(C2_MonthText(q, i + 5))),
                 year |-> Some(ParseInt(SubSeq(q, i, i + 3)))]
        ELSE [month |-> None, year |-> None]

\* C2: the month and year extracted are those of a month name followed by
\* a 20xx year, else those of a YYYY, separator, MM pattern with the month
\* equal to the numeric value of MM for MM in 01..12 and 1..12 (so 2025-10
\* gives month 10), else (None, None); both None or both set, month in
\* 1..12.
C2_ExtractorAsSpecified ==
    (plan.raised = "none" /\ plan.intent \in {"opex_breakdown", "revenue_vs_budget"}) =>
        /\ plan.params = C2_Expected(Normalised)
        /\ IsNone(plan.params.month) <=> IsNone(plan.params.year)
        /\ (~IsNone(plan.params.month) => plan.params.month[1] \in 1..12)

\* The rate the FX table holds for (period, currency), 1 when it holds none.
RateOf(b, p, cur) ==
    LET hits == {i \in 1..Len(b.fx.rows) :
                    b.fx.rows[i].period = p /\ b.fx.rows[i].currency = cur}
    IN  IF hits = {} THEN 1 ELSE b.fx.rows[Least(hits)].rate_to_usd

\* C3: to_usd yields exactly one output row per input row, in order, whose
\* converted amount is amount x rate_to_usd when the FX table has an entry
\* for the row's (period, currency) and the amount itself when it has none,
\* for the FX table of every bundle load_data returns.
C3_OneRowPerInput ==
    (call.fn = "to_usd" /\ result.kind = "ok") =>
        LET inp == loaded[call.src].rows
            out == result.val.rows
        IN  /\ Len(out) = Len(inp)
            /\ \A i \in 1..Len(inp) :
                /\ out[i].period = inp[i].period
                /\ out[i].account = inp[i].account
                /\ out[i].amount_usd =
                       inp[i].amount * RateOf(loaded, inp[i].period, inp[i].currency)

\* The greatest period of a frame in string order.
MaxPeriod(df) ==
    CHOOSE p \in PeriodSet(df) : \A q \in PeriodSet(df) : q = p \/ StrLess(q, p)

\* C4: with at least one actuals period, revenue_vs_budget_usd(None, None)
\* returns what the call with the month and year of the greatest actuals
\* period returns; the budget side is taken at that period and is 0 when
\* budget has no rows for it.
C4_LatestRoundTrip ==
    (/\ call.fn = "revenue_vs_budget_usd"
     /\ IsNone(call.month) /\ IsNone(call.year)
     /\ PeriodSet(loaded.actuals) # {}) =>
        LET latest == MaxPeriod(loaded.actuals)
            y == ParseInt(SubSeq(latest, 1, 4))
            m == ParseInt(SubSeq(latest, 6, 7))
            explicit == revenue_vs_budget_usd(loaded, Some(m), Some(y))
        IN  /\ result.kind = "ok"
            /\ explicit.kind = "ok"
            /\ result.val = explicit.val
            /\ result.val.label = latest
            /\ result.val.budget =
                   SumCol(UsdOf(Select(loaded.budget, PeriodIs(loaded.budget, latest)),
                                "Revenue", loaded).rows,
                          "amount_usd")
            /\ (latest \notin PeriodSet(loaded.budget) => result.val.budget = 0)

\* The latest period is 2025-07, where actuals has revenue and budget has
\* no row although it has rows for other periods.
C4_Witness ==
    /\ call.fn = "revenue_vs_budget_usd"
    /\ IsNone(call.month) /\ IsNone(call.year)
    /\ result.kind = "ok"
    /\ result.val.label = p_2025_07
    /\ result.val.actual > 0
    /\ result.val.budget = 0
    /\ Len(loaded.budget.rows) > 0
    /\ Cardinality(PeriodSet(loaded.actuals)) >= 2

\* The sum of amount x rate over the rows that satisfy keep, one term a row.
RECURSIVE RefUsd(_, _, _)
RefUsd(b, rows, col) ==
    IF Len(rows) = 0 THEN 0
    ELSE rows[1][col] * RateOf(b, rows[1].period, rows[1].currency)
         + RefUsd(b, Tail(rows), col)

RefBurn(b, p) ==
    LET Cost(r) == r.period = p /\ (IsCogs(r) \/ IsOpex(r))
        Rev(r) == r.period = p /\ IsRevenue(r)
    IN  RefUsd(b, SelectSeq(b.actuals.rows, Cost), "amount")
        - RefUsd(b, SelectSeq(b.actuals.rows, Rev), "amount")

RECURSIVE SumOver(_, _)
SumOver(b, S) ==
    IF S = {} THEN 0
    ELSE LET p == CHOOSE x \in S : TRUE
         IN  RefBurn(b, p) + SumOver(b, S \ {p})

\* The last three distinct actuals periods (all of them when fewer).
LastThree(b) ==
    {p \in PeriodSet(b.actuals) :
        Cardinality({q \in PeriodSet(b.actuals) : StrLess(p, q)}) < RunwayWindow}

RunwayAsSpecified(b, r) ==
    LET W == LastThree(b)
        total == SumOver(b, W)
        AtLatest(c) == c.period = MaxPeriod(b.cash)
        cash == RefUsd(b, SelectSeq(b.cash.rows, AtLatest), "cash_balance")
    IN  /\ r.kind = "ok"
        /\ r.val.cash = cash
        /\ (total <= 0 => r.val.months.inf)
        /\ (total > 0 =>
               /\ ~r.val.months.inf
               /\ r.val.months.num * total = cash * Cardinality(W) * r.val.months.den)

\* C5: cash_runway_months averages burn(p) = (cogs(p) + opex(p)) -
\* revenue(p) over the last 3 distinct actuals periods (all when fewer),
\* takes latestCashUsd as the converted sum of the cash rows of the latest
\* cash period, and returns latestCashUsd / avgBurn exactly when
\* avgBurn > 0 and +infinity exactly when avgBurn <= 0.
C5_RunwayAsSpecified ==
    (/\ call.fn = "cash_runway_months"
     /\ PeriodSet(loaded.actuals) # {}
     /\ PeriodSet(loaded.cash) # {}) => RunwayAsSpecified(loaded, result)

FxKeysUnique(b) ==
    \A i, j \in 1..Len(b.fx.rows) :
        (b.fx.rows[i].period = b.fx.rows[j].period
         /\ b.fx.rows[i].currency = b.fx.rows[j].currency) => i = j

\* The statement of C5 on the bundles whose FX table holds no (period,
\* currency) twice: there the runway is as specified.
RunwayOnUniqueFx ==
    (/\ call.fn = "cash_runway_months"
     /\ PeriodSet(loaded.actuals) # {}
     /\ PeriodSet(loaded.cash) # {}
     /\ FxKeysUnique(loaded)) => RunwayAsSpecified(loaded, result)

\* C6: for k distinct actuals periods and every window N >= 0 (0 included),
\* gross_margin_pct returns exactly min(N, k) entries: the N greatest
\* distinct actuals periods, each once, in ascending order.
C6_WindowLength ==
    (call.fn = "gross_margin_pct" /\ result.kind = "ok") =>
        LET P == PeriodSet(loaded.actuals)
            want == {p \in P : Cardinality({q \in P : StrLess(p, q)}) < call.n}
        IN  /\ Len(result.val) = Min(call.n, Cardinality(P))
            /\ {result.val[i].period : i \in 1..Len(result.val)} = want
            /\ \A i \in 1..(Len(result.val) - 1) :
                   StrLess(result.val[i].period, result.val[i + 1].period)

\* The period an opex_breakdown call resolves to.
ResolvedPeriod ==
    IF Truthy(call.month) /\ Truthy(call.year)
    THEN FormatPeriod(call.year[1], call.month[1])
    ELSE MaxPeriod(loaded.actuals)

\* The rows of the resolved period with an Opex: account, as positions in
\* actuals.
OpexPositions ==
    {i \in 1..Len(loaded.actuals.rows) :
        /\ loaded.actuals.rows[i].period = ResolvedPeriod
        /\ IsOpex(loaded.actuals.rows[i])}

\* The category of a row: its account with 'Opex:' removed.
CategoryAt(i) == RemoveAll(loaded.actuals.rows[i].account, pfx_Opex)

FirstSeen(c) == Least({i \in OpexPositions : CategoryAt(i) = c})

OpexAnswered ==
    /\ call.fn = "opex_breakdown"
    /\ result.kind = "ok"

\* C7, as stated: one entry per distinct Opex category of the resolved
\* period, non-increasing by amountUsd, and categories with equal amountUsd
\* in the order their first rows were encountered.
C7_TiesInEncounterOrder ==
    OpexAnswered =>
        /\ {result.val[i].category : i \in 1..Len(result.val)}
               = {CategoryAt(i) : i \in OpexPositions}
        /\ \A i \in 1..(Len(result.val) - 1) :
            \/ result.val[i].amount_usd > result.val[i + 1].amount_usd
            \/ /\ result.val[i].amount_usd = result.val[i + 1].amount_usd
               /\ FirstSeen(result.val[i].category) < FirstSeen(result.val[i + 1].category)

\* C7, amended: one entry per distinct Opex category of the resolved
\* period, ordered non-increasing by amountUsd; the order among categories
\* with equal amountUsd is not fixed.
C7_SortedOnePerCategory ==
    OpexAnswered =>
        /\ {result.val[i].category : i \in 1..Len(result.val)}
               = {CategoryAt(i) : i \in OpexPositions}
        /\ Len(result.val) = Cardinality({CategoryAt(i) : i \in OpexPositions})
        /\ \A i \in 1..(Len(result.val) - 1) :
               result.val[i].amount_usd >= result.val[i + 1].amount_usd

\* Three categories were returned, the first larger than the other two,
\* which are tied and appear against the order of their first rows.
C7_Witness ==
    /\ OpexAnswered
    /\ Len(result.val) = 3
    /\ result.val[1].amount_usd > result.val[2].amount_usd
    /\ result.val[2].amount_usd = result.val[3].amount_usd
    /\ FirstSeen(result.val[3].category) < FirstSeen(result.val[2].category)

\* C8: every metric function called on a bundle whose relevant source has
\* no rows fails with EmptyDatasetError: it returns no normal result and
\* raises no other error.
C8_EmptyDatasetError ==
    (\/ /\ call.fn \in {"revenue_vs_budget_usd", "gross_margin_pct", "opex_breakdown",
                        "ebitda_proxy", "cash_runway_months"}
        /\ Len(loaded.actuals.rows) = 0
     \/ /\ call.fn = "cash_runway_months"
        /\ Len(loaded.cash.rows) = 0) =>
        result.kind = "EmptyDatasetError"

\* C9: after any sequence of calls of the metric functions and to_usd, the
\* bundle's four frames have exactly the rows and columns they had after
\* load.
C9_BundleUnchanged == bundle = loaded

\* A breakdown with a category column and a conversion with rate and
\* amount_usd columns were computed, and actuals has none of them.
C9_Witness ==
    /\ call.fn = "to_usd"
    /\ call.src = "actuals"
    /\ result.kind = "ok"
    /\ Len(result.val.rows) > 0
    /\ {"rate_to_usd", "amount_usd"} \subseteq result.val.cols
    /\ bundle.actuals.cols = LedgerCols \cup {"currency"}

\* C10: when the metric function dispatched for a question raises, the
\* error is caught for that question and rendered as a message, and the
\* run is not aborted.
C10_ErrorsCaughtPerQuestion ==
    run.error # "none" =>
        /\ run.status = "completed"
        /\ \E i \in 1..Len(run.shown) : run.shown[i] = "error"

====
